---- MODULE Spec2Model ----
(***************************************************************************)
(* Model of src/pengaduan_bot.py: a Telegram complaint bot.  Handlers are  *)
(* asyncio coroutines; a handler runs without interruption from one await   *)
(* that really suspends (an outbound send, the attachment fetch, a sleep,   *)
(* a contended lock) to the next.  The sheet calls (get_all_records,        *)
(* append_row) are synchronous and never suspend.                           *)
(*                                                                          *)
(* Texts are sequences of one-character strings, so that prefix tests,      *)
(* substring tests and the ticket number format are computed, not assumed.  *)
(***************************************************************************)
EXTENDS Integers, Sequences, FiniteSets, TLC

\* ------------------------------------------------------------------ bounds
NUsers == 2
MaxHandlers == 2
MaxMsgs == 7
MaxBoth == 2
MaxRows == 3

\* ------------------------------------------------------- program constants
NAdmins == 3
retry_count == 3

Users == 1..NUsers
ADMIN_IDS == 1..NAdmins
\* slots for the coroutines in flight: MaxHandlers suspended ones and the one running
HIDs == 1..(MaxHandlers + 1)
LockIds == 1..(NUsers + MaxHandlers + 1)

\* ------------------------------------------------------------------- texts
Digit == <<"0", "1", "2", "3", "4", "5", "6", "7", "8", "9">>

UpperAlphabet == <<"A","B","C","D","E","F","G","H","I","J","K","L","M",
                   "N","O","P","Q","R","S","T","U","V","W","X","Y","Z">>

LowerAlphabet == <<"a","b","c","d","e","f","g","h","i","j","k","l","m",
                   "n","o","p","q","r","s","t","u","v","w","x","y","z">>

LowerChar(c) ==
  IF \E i \in 1..26 : UpperAlphabet[i] = c
  THEN LowerAlphabet[CHOOSE i \in 1..26 : UpperAlphabet[i] = c]
  ELSE c

\* the text left in the case it was typed in
KeepCase(s) == s

\* str.lower()
Lower(s) == [i \in 1..Len(s) |-> LowerChar(s[i])]

\* the whitespace characters an input may hold
Spaces == {" ", "\t", "\n"}

IsSpace(c) == c \in Spaces

\* str.strip()
Strip(s) ==
  LET keep == {i \in 1..Len(s) : ~IsSpace(s[i])}
  IN IF keep = {} THEN <<>>
     ELSE LET lo == CHOOSE i \in keep : \A j \in keep : i <= j
              hi == CHOOSE i \in keep : \A j \in keep : j <= i
          IN SubSeq(s, lo, hi)

\* a in b
IsSubstr(a, b) ==
  \E i \in 0..Len(b) : i + Len(a) <= Len(b) /\ SubSeq(b, i + 1, i + Len(a)) = a

\* s.startswith(p)
StartsWith(s, p) == Len(p) <= Len(s) /\ SubSeq(s, 1, Len(p)) = p

RECURSIVE Digits(_)
Digits(n) == IF n < 10 THEN <<Digit[n + 1]>> ELSE Digits(n \div 10) \o <<Digit[(n % 10) + 1]>>

\* f"{n:03d}"
Pad3(n) ==
  LET d == Digits(n)
  IN IF Len(d) >= 3 THEN d ELSE [i \in 1..(3 - Len(d)) |-> "0"] \o d

\* datetime.now(JAKARTA_TZ).strftime("%d%m%Y"); day d of the model is the d-th of 01/2025
DateStr(d) == <<"0", Digit[d + 1], "0", "1", "2", "0", "2", "5">>

\* ------------------------------------------------------------- the catalog
K_jokerbola == <<"j","o","k","e","r","b","o","l","a">>
K_nagabola == <<"n","a","g","a","b","o","l","a">>
K_macanbola == <<"m","a","c","a","n","b","o","l","a">>
K_ligapedia == <<"l","i","g","a","p","e","d","i","a">>
K_pasarliga == <<"p","a","s","a","r","l","i","g","a">>

N_JokerBola == <<"J","o","k","e","r","B","o","l","a">>
N_NagaBola == <<"N","a","g","a","B","o","l","a">>
N_MacanBola == <<"M","a","c","a","n","B","o","l","a">>
N_LigaPedia == <<"L","i","g","a","P","e","d","i","a">>
N_PasarLiga == <<"P","a","s","a","r","L","i","g","a">>

\* the dict WEBSITES in its insertion order
WEBSITES ==
  << [key |-> K_jokerbola, code |-> <<"J","B">>, name |-> N_JokerBola],
     [key |-> K_nagabola,  code |-> <<"N","B">>, name |-> N_NagaBola],
     [key |-> K_macanbola, code |-> <<"M","B">>, name |-> N_MacanBola],
     [key |-> K_ligapedia, code |-> <<"L","P">>, name |-> N_LigaPedia],
     [key |-> K_pasarliga, code |-> <<"P","L">>, name |-> N_PasarLiga] >>

NoMatch == [key |-> <<>>, code |-> <<>>, name |-> <<>>]

WebsiteMatches(w, user_input_lower) ==
  \/ IsSubstr(w.key, user_input_lower)
  \/ IsSubstr(Lower(w.name), user_input_lower)
  \/ IsSubstr(user_input_lower, w.key)
  \/ IsSubstr(user_input_lower, Lower(w.name))

\* returns the first catalog entry that matches, NoMatch for (None, None)
validate_website_input(user_input) ==
  LET user_input_lower == Strip(Lower(user_input))
      hits == {i \in 1..Len(WEBSITES) : WebsiteMatches(WEBSITES[i], user_input_lower)}
  IN IF hits = {} THEN NoMatch
     ELSE WEBSITES[CHOOSE i \in hits : \A j \in hits : i <= j]

\* ------------------------------------------------------------ ticket number
TicketPrefix(website_code, day) == website_code \o <<"-">> \o DateStr(day)

FormatTicket(website_code, day, n) == TicketPrefix(website_code, day) \o <<"-">> \o Pad3(n)

\* rows: the sheet; day: today; read_ok: FALSE when get_all_records raises
generate_ticket_number(website_code, rows, day, read_ok) ==
  IF read_ok
  THEN LET count_today ==
             Cardinality({i \in 1..Len(rows) :
                            StartsWith(rows[i].tid, TicketPrefix(website_code, day))})
       IN FormatTicket(website_code, day, count_today + 1)
  ELSE FormatTicket(website_code, day, 1)

\* ------------------------------------------------------------------ inputs
T_zzz == <<"z","z","z">>

\* the answers a user types to the name, username and complaint prompts
A_nama == <<" ","A","n","i"," ">>
A_username == <<"a","n","i","7">>
A_keluhan == <<"w","d"," ","?">>

\* the other plain texts a user types: a catalog name, and the number of the first
\* JokerBola ticket of day 1 (which matches no catalog entry)
Texts == {K_jokerbola, FormatTicket(<<"J","B">>, 1, 1)}

Answers == {A_nama, A_username, A_keluhan}

\* the reserved labels and commands, the photo event, or a plain text
Commands == {"start", "buat", "cek", "bantuan", "cancel", "kirim_foto", "skip", "photo"}

\* validate_website_input on the texts of the model, computed once
ValidatedTexts == {<<Strip(x), validate_website_input(Strip(x))>> : x \in Texts \cup Answers}

Validated(t) == (CHOOSE p \in ValidatedTexts : p[1] = t)[2]

\* outcomes of the synchronous sheet calls of one run: get_all_records and append_row
Envs == [read : BOOLEAN, append : BOOLEAN]

\* the runs that reach no sheet call, and those that reach get_all_records only
NoSheet == {[read |-> TRUE, append |-> TRUE]}
ReadOnly == [read : BOOLEAN, append : {TRUE}]

\* ------------------------------------------------------------------- state
VARIABLES
  user_states,   \* user -> session (NoSession when the key is absent)
  user_locks,    \* user -> lock object id (0 when the key is absent)
  locks,         \* lock object id -> [holder, waiters]
  handlers,      \* slot -> coroutine in flight (Idle when free)
  worksheet,     \* the rows of the sheet, in order
  today,         \* the current day
  outbox,        \* user -> the last reply delivered by an await the handler goes on after
  fanout,        \* row index -> what the notifier did for that row (observer)
  overlap,       \* users for which a lock was acquired while another was held (observer)
  finalized,     \* user -> rows appended from the user's current session (observer)
  event,         \* what the last step did when it ran start, handle_cancel or
                 \* handle_bantuan, validated a category, read a field for a reply,
                 \* or took the unknown-state branch of handle_message (observer)
  budget         \* user -> number of updates the user may still send

vars == <<user_states, user_locks, locks, handlers, worksheet, today, outbox,
          fanout, overlap, finalized, event, budget>>

NoData == <<>>

NoSession == [mode |-> "ABSENT", step |-> "None", data |-> NoData]

\* the dict get_user_state creates
DefaultState == [mode |-> "None", step |-> "None", data |-> NoData]

FreeLock == [holder |-> 0, waiters |-> <<>>]

NoReply == [kind |-> "none", tid |-> <<>>, row |-> <<>>]

Idle == [user |-> 0, kind |-> "idle", pc |-> "idle", msg |-> <<>>, ref |-> "none",
         held |-> 0, data |-> NoData, tid |-> <<>>, row |-> 0, attempt |-> 0,
         res |-> NoReply, step |-> ""]

NoPhoto == "Tidak ada bukti foto"
FilePath == "https://file_path"

\* get_user_contact_info for a user without a username: contact_info
UsernameTg(u) == <<"I","D",":"," ">> \o Digits(u)

\* str(x) of a user id
Str(n) == Digits(n)

NoEvent == [kind |-> "none", user |-> 0, intake |-> FALSE]

\* the whole mutable state as one value, so that a handler can be run from one
\* suspension point to the next inside a single step
Cur ==
  [us |-> user_states, ul |-> user_locks, lk |-> locks, hs |-> handlers,
   ws |-> worksheet, day |-> today, out |-> outbox, fan |-> fanout,
   ov |-> overlap, fin |-> finalized, ev |-> NoEvent, capped |-> FALSE]

\* the points where a handler enters `async with get_user_lock(user_id)`
Sections ==
  {"start", "buat", "cek", "cancel", "msg_read", "msg_clear", "flow_read",
   "flow_site", "flow_nama", "flow_user", "flow_keluhan", "flow_clear",
   "cek_clear", "skip_set", "photo_read", "photo_set", "fin_read",
   "fin_fail_clear", "fin_clear"}

\* the awaits that suspend on an outbound reply
ReplyAwaits ==
  {"pre_fin", "flow_err_reply", "cek_reply", "cek_err_reply", "fin_nodata_reply",
   "fin_fail_reply", "fin_ok_reply"}

\* ---------------------------------------------------------- session store
get_user_lock(st, u) ==
  IF st.ul[u] # 0 THEN st
  ELSE LET unused == {id \in LockIds :
                        /\ st.lk[id] = FreeLock
                        /\ \A v \in Users : st.ul[v] # id}
           id == CHOOSE i \in unused : \A j \in unused : i <= j
       IN [st EXCEPT !.ul[u] = id]

get_user_state(st, u) ==
  IF st.us[u] = NoSession THEN [st EXCEPT !.us[u] = DefaultState] ELSE st

\* the session deleted and the lock entry kept
ClearSessionOnly(st, u) == [st EXCEPT !.us[u] = NoSession, !.fin[u] = 0]

\* the maps emptied for every user instead of the entries of one user deleted
ClearEveryUser(st, u) ==
  [st EXCEPT !.us = [v \in Users |-> NoSession],
             !.ul = [v \in Users |-> 0],
             !.fin[u] = 0]

\* del user_states[user_id]; del user_locks[user_id].  A handler's local
\* user_state that pointed at the deleted dict now points at an orphan.
clear_user_state(st, u) ==
  [st EXCEPT !.us[u] = NoSession,
             !.ul[u] = 0,
             !.fin[u] = 0,
             !.hs = [h \in HIDs |->
                       IF st.hs[h].user = u /\ st.hs[h].ref = "live"
                       THEN [st.hs[h] EXCEPT !.ref = "stale"] ELSE st.hs[h]]]

\* user_state = get_user_state(user_id): the local now points at the dict in the map
TakeRef(st, h) == [get_user_state(st, st.hs[h].user) EXCEPT !.hs[h].ref = "live"]

\* user_state[...] = ... through the handler's local reference
WriteRef(st, h, step, fields) ==
  LET u == st.hs[h].user
  IN IF st.hs[h].ref = "live"
     THEN [st EXCEPT !.us[u].data = fields @@ @, !.us[u].step = step]
     ELSE st

\* ------------------------------------------------------------------ locks
Acquired(st, h, id) ==
  LET u == st.hs[h].user
      others == {g \in HIDs \ {h} : st.hs[g].user = u /\ st.hs[g].held # 0}
  IN [st EXCEPT !.lk[id].holder = h,
                !.hs[h].held = id,
                !.ov = IF others = {} THEN @ ELSE @ \cup {u}]

\* asyncio.Lock.acquire: taken at once when free and nobody waits, else queue
Enter(st, h) ==
  LET u == st.hs[h].user
      s1 == get_user_lock(st, u)
      id == s1.ul[u]
  IN IF s1.lk[id] = FreeLock
     THEN Acquired(s1, h, id)
     ELSE [s1 EXCEPT !.lk[id].waiters = Append(@, h)]

\* asyncio.Lock.release: the first waiter is woken and takes the lock when it runs
Release(st, h) ==
  LET id == st.hs[h].held
  IN [st EXCEPT !.lk[id].holder = 0, !.hs[h].held = 0]

\* ---------------------------------------------------------------- replies
Reply(kind) == [kind |-> kind, tid |-> <<>>, row |-> <<>>]

Goto(st, h, pc) == [st EXCEPT !.hs[h].pc = pc]

Finish(st, h) == [st EXCEPT !.hs[h] = Idle]

\* the reply is the last one the user got, and the last one this handler sent
Send(st, h, r) == [st EXCEPT !.out[st.hs[h].user] = r, !.hs[h].res = r]

\* the handler's last await: reply_text returns or raises, and the coroutine ends
\* either way; these prompts and menus are not recorded
FinalReply(st, h, r, env) == Finish(st, h)

\* an exception leaves the coroutine: handle_photo's except clause answers it when
\* it was raised inside its try block, error_handler otherwise
Raise(st, h, env) ==
  FinalReply(st, h, Reply(IF st.hs[h].kind = "photo" THEN "photo_error" ELSE "handler_error"), env)

\* ------------------------------------------------------------ status lookup
NotFound == Reply("not_found")

\* the scan without the ownership test
LookupAnyOwner(rows, ticket_id, current_user_id) ==
  LET hits == {i \in 1..Len(rows) : rows[i].tid = ticket_id}
  IN IF hits = {} THEN NotFound
     ELSE [kind |-> "status", tid |-> ticket_id,
           row |-> <<rows[CHOOSE i \in hits : \A j \in hits : i <= j]>>]

\* the scan of proses_cek_status and the reply it chooses
Lookup(rows, ticket_id, current_user_id) ==
  LET hits == {i \in 1..Len(rows) : rows[i].tid = ticket_id}
  IN IF hits = {} THEN NotFound
     ELSE LET row == rows[CHOOSE i \in hits : \A j \in hits : i <= j]
          IN IF Str(row.user_id) = Str(current_user_id)
             THEN [kind |-> "status", tid |-> ticket_id, row |-> <<row>>]
             ELSE NotFound

\* worksheet.get_all_records() and the scan; the reply is sent at the next await
proses_cek_status(st, h, env) ==
  IF env.read
  THEN [Goto(st, h, "cek_reply") EXCEPT
          !.hs[h].res = Lookup(st.ws, st.hs[h].msg, st.hs[h].user)]
  ELSE Goto(st, h, "cek_err_reply")

\* ----------------------------------------------------------------- finalize
SavedKeys == {"website_name", "nama", "username_website", "keluhan", "username_tg", "user_id"}

\* the list with the user id cell left at 0
RowNoOwner(data, ticket_id, timestamp) ==
  [ts |-> timestamp,
   tid |-> ticket_id,
   website |-> data["website_name"],
   nama |-> data["nama"],
   username_website |-> data["username_website"],
   keluhan |-> data["keluhan"],
   bukti |-> IF "bukti" \in DOMAIN data THEN data["bukti"] ELSE NoPhoto,
   username_tg |-> data["username_tg"],
   user_id |-> 0,
   contact_method |-> IF "contact_method" \in DOMAIN data THEN data["contact_method"]
                      ELSE "User ID",
   full_name_tg |-> IF "full_name_tg" \in DOMAIN data THEN data["full_name_tg"] ELSE "",
   status |-> "Sedang diproses"]

\* the list with the name and the username cells exchanged
RowSwapped(data, ticket_id, timestamp) ==
  [ts |-> timestamp,
   tid |-> ticket_id,
   website |-> data["website_name"],
   nama |-> data["username_website"],
   username_website |-> data["nama"],
   keluhan |-> data["keluhan"],
   bukti |-> IF "bukti" \in DOMAIN data THEN data["bukti"] ELSE NoPhoto,
   username_tg |-> data["username_tg"],
   user_id |-> data["user_id"],
   contact_method |-> IF "contact_method" \in DOMAIN data THEN data["contact_method"]
                      ELSE "User ID",
   full_name_tg |-> IF "full_name_tg" \in DOMAIN data THEN data["full_name_tg"] ELSE "",
   status |-> "Sedang diproses"]

\* the list handed to worksheet.append_row
Row(data, ticket_id, timestamp) ==
  [ts |-> timestamp,
   tid |-> ticket_id,
   website |-> data["website_name"],
   nama |-> data["nama"],
   username_website |-> data["username_website"],
   keluhan |-> data["keluhan"],
   bukti |-> IF "bukti" \in DOMAIN data THEN data["bukti"] ELSE NoPhoto,
   username_tg |-> data["username_tg"],
   user_id |-> data["user_id"],
   contact_method |-> IF "contact_method" \in DOMAIN data THEN data["contact_method"]
                      ELSE "User ID",
   full_name_tg |-> IF "full_name_tg" \in DOMAIN data THEN data["full_name_tg"] ELSE "",
   status |-> "Sedang diproses"]

\* what the notifier did for a row: the calls of kirim_notifikasi_admin made, the
\* recipients tried and reached by the last one, what it returned, and how many
\* messages each recipient got over all calls
NoFan == [new |-> FALSE, attempts |-> 0, tried |-> {}, reached |-> {}, success |-> FALSE,
          got |-> [a \in ADMIN_IDS |-> 0]]

NewFan == [NoFan EXCEPT !.new = TRUE]

\* selesaikan_pengaduan from the copy of the data to the first reply: the ticket
\* number, the append, and which reply comes next
Save(st, h, env) ==
  LET data == st.hs[h].data
  IN IF "website_code" \notin DOMAIN data THEN Raise(st, h, env)
     ELSE LET ticket_id == generate_ticket_number(data["website_code"], st.ws, st.day, env.read)
          IN IF SavedKeys \subseteq DOMAIN data /\ env.append
             THEN IF Len(st.ws) >= MaxRows THEN [st EXCEPT !.capped = TRUE]
                  ELSE [Goto(st, h, "fin_ok_reply") EXCEPT
                          !.ws = Append(@, Row(data, ticket_id, st.day)),
                          !.fan = Append(@, NewFan),
                          !.fin[st.hs[h].user] = @ + 1,
                          !.hs[h].tid = ticket_id,
                          !.hs[h].row = Len(st.ws) + 1]
             ELSE [Goto(st, h, "fin_fail_reply") EXCEPT !.hs[h].tid = ticket_id]

\* the first locked block of selesaikan_pengaduan
selesaikan_pengaduan(st, h, env) ==
  LET u == st.hs[h].user
      s1 == get_user_state(st, u)
      data == s1.us[u].data
  IN IF data = NoData
     THEN Goto(s1, h, "fin_nodata_reply")
     ELSE Save(Release([s1 EXCEPT !.hs[h].data = data], h), h, env)

\* ------------------------------------------------------- the other handlers
\* clear_user_state, get_user_state and the new mode and step, under the lock
ResetTo(st, u, mode, step) ==
  LET s1 == get_user_state(clear_user_state(st, u), u)
  IN [s1 EXCEPT !.us[u].mode = mode, !.us[u].step = step]

\* the mode and step of the main menu, nothing collected
MenuState == [mode |-> "menu", step |-> "None", data |-> NoData]

\* a session in the middle of an intake, with answers collected
MidIntake(s) == s.mode = "pengaduan" /\ s.step # "nama_website" /\ s.data # NoData

start(st, h, env) ==
  LET u == st.hs[h].user
      s1 == [st EXCEPT !.ev = [kind |-> "start", user |-> u, intake |-> MidIntake(st.us[u])]]
  IN FinalReply(Release(ResetTo(s1, u, "menu", "None"), h), h, Reply("welcome"), env)

handle_buat_pengaduan(st, h, env) ==
  FinalReply(Release(ResetTo(st, st.hs[h].user, "pengaduan", "nama_website"), h), h,
             Reply("ask_website"), env)

handle_cek_status(st, h, env) ==
  FinalReply(Release(ResetTo(st, st.hs[h].user, "cek_status", "input_tiket"), h), h,
             Reply("ask_ticket"), env)

\* handle_cancel setting the mode without clearing the session
CancelKeep(st, u) == [get_user_state(st, u) EXCEPT !.us[u].mode = "menu", !.us[u].step = "None"]

\* the locked block of handle_cancel
CancelReset(st, u) == ResetTo(st, u, "menu", "None")

handle_cancel(st, h, env) ==
  LET u == st.hs[h].user
      s1 == [st EXCEPT !.ev = [kind |-> "cancel", user |-> u, intake |-> MidIntake(st.us[u])]]
  IN FinalReply(Release(CancelReset(s1, u), h), h, Reply("cancelled"), env)

\* handle_message for a plain text: the locked read of mode and step, and the branch
handle_message(st, h, env) ==
  LET u == st.hs[h].user
      s1 == get_user_state(st, u)
      mode == s1.us[u].mode
      step == s1.us[u].step
      s2 == Release(s1, h)
  IN IF mode = "pengaduan" THEN Goto(s2, h, "flow_read")
     ELSE IF mode = "cek_status" /\ step = "input_tiket" THEN proses_cek_status(s2, h, env)
     ELSE Goto(s2, h, "msg_clear")

\* the session deleted when the category is not valid
InvalidWebsiteClears(st, h) == clear_user_state(st, st.hs[h].user)

\* the branch for a category that is not valid writes nothing
InvalidWebsite(st, h) == st

\* handle_pengaduan_flow: the locked read of the step, and the branch on it
handle_pengaduan_flow(st, h, env) ==
  LET u == st.hs[h].user
      s1 == TakeRef(st, h)
      step == s1.us[u].step
      s2 == Release([s1 EXCEPT !.hs[h].step = step], h)
      found == Validated(st.hs[h].msg)
      s3 == [s2 EXCEPT !.ev = [kind |-> "category", user |-> u, found |-> found]]
  IN CASE step = "nama_website" ->
            IF found # NoMatch
            THEN Goto(s3, h, "flow_site")
            ELSE FinalReply(InvalidWebsite(s3, h), h, Reply("invalid_website"), env)
       [] step = "nama" -> Goto(s2, h, "flow_nama")
       [] step = "username_website" -> Goto(s2, h, "flow_user")
       [] step = "keluhan" -> Goto(s2, h, "flow_keluhan")
       [] OTHER -> Goto(s2, h, "flow_err_reply")

\* user_state["data"][field] read to build a reply; locked tells whether the
\* handler holds a lock at that point
ReadForReply(st, h, field) ==
  [st EXCEPT !.ev = [kind |-> "read", user |-> st.hs[h].user, field |-> field,
                     locked |-> st.hs[h].held # 0]]

\* the locked writes of handle_pengaduan_flow, through the local user_state
flow_write(st, h, env) ==
  LET u == st.hs[h].user
      pc == st.hs[h].pc
      msg == st.hs[h].msg
      w == Validated(msg)
  IN CASE pc = "flow_site" ->
            FinalReply(Release(WriteRef(st, h, "nama",
                         ("website_name" :> w.name) @@ ("website_code" :> w.code)), h),
                       h, Reply("ask_nama"), env)
       [] pc = "flow_nama" ->
            FinalReply(ReadForReply(Release(WriteRef(st, h, "username_website",
                         ("nama" :> msg) @@ ("user_id" :> u) @@ ("username_tg" :> UsernameTg(u))
                         @@ ("contact_method" :> "User ID")
                         @@ ("full_name_tg" :> "Tidak ada nama")), h), h, "website_name"),
                       h, Reply("ask_username"), env)
       [] pc = "flow_user" ->
            FinalReply(Release(WriteRef(st, h, "keluhan", ("username_website" :> msg)), h),
                       h, Reply("ask_keluhan"), env)
       [] pc = "flow_keluhan" ->
            FinalReply(Release(WriteRef(st, h, "bukti", ("keluhan" :> msg)), h),
                       h, Reply("ask_bukti"), env)

\* handle_bukti_selection for the skip label: the locked block
handle_bukti_selection(st, h, env) ==
  LET u == st.hs[h].user
      s1 == get_user_state(st, u)
      s2 == [s1 EXCEPT !.us[u].data = ("bukti" :> NoPhoto) @@ @,
                       !.us[u].step = "completed"]
  IN Goto(Release(s2, h), h, "pre_fin")

\* handle_photo: the locked read of mode and step
handle_photo(st, h, env) ==
  LET u == st.hs[h].user
      s1 == TakeRef(st, h)
      mode == s1.us[u].mode
      step == s1.us[u].step
      s2 == Release(s1, h)
  IN IF mode = "pengaduan" /\ step = "bukti"
     THEN Goto(s2, h, "photo_fetch")
     ELSE FinalReply(s2, h, Reply("photo_not_needed"), env)

\* handle_photo after get_file: the locked write through the local user_state
photo_set(st, h, env) ==
  Goto(Release(WriteRef(st, h, "completed", ("bukti" :> FilePath)), h), h, "pre_fin")

\* the final block leaving without clear_user_state
EndWithoutClear(st, h) == Finish(Release(st, h), h)

\* async with get_user_lock(user_id): clear_user_state(user_id)
ClearAndEnd(st, h) == Finish(Release(clear_user_state(st, st.hs[h].user), h), h)

\* the locked block a handler is about to run, the lock being held by it
Body(st, h, env) ==
  LET pc == st.hs[h].pc
  IN CASE pc = "start" -> start(st, h, env)
       [] pc = "buat" -> handle_buat_pengaduan(st, h, env)
       [] pc = "cek" -> handle_cek_status(st, h, env)
       [] pc = "cancel" -> handle_cancel(st, h, env)
       [] pc = "msg_read" -> handle_message(st, h, env)
       [] pc = "msg_clear" ->
            FinalReply(Release(clear_user_state(
                                 [st EXCEPT !.ev = [kind |-> "fallback", user |-> st.hs[h].user,
                                                    intake |-> FALSE]],
                                 st.hs[h].user), h),
                       h, Reply("menu"), env)
       [] pc = "flow_read" -> handle_pengaduan_flow(st, h, env)
       [] pc \in {"flow_site", "flow_nama", "flow_user", "flow_keluhan"} -> flow_write(st, h, env)
       [] pc = "skip_set" -> handle_bukti_selection(st, h, env)
       [] pc = "photo_read" -> handle_photo(st, h, env)
       [] pc = "photo_set" -> photo_set(st, h, env)
       [] pc = "fin_read" -> selesaikan_pengaduan(st, h, env)
       [] pc \in {"flow_clear", "cek_clear", "fin_fail_clear", "fin_clear"} -> ClearAndEnd(st, h)

\* a handler runs until it suspends: on a contended lock, on an await, or at its end
RECURSIVE Run(_, _, _)
Run(st, h, env) ==
  IF st.hs[h].pc \in Sections /\ ~st.capped
  THEN LET e == Enter(st, h)
       IN IF e.hs[h].held = 0 THEN e ELSE Run(Body(e, h, env), h, env)
  ELSE st

\* ---------------------------------------------------------------- notifier
\* for attempt in range(retry_count): the next call of kirim_notifikasi_admin
StartAttempt(st, h) == Goto(st, h, "notify_send")

\* success reported only when every recipient was reached
FanoutAllReached(success_count) == success_count = NAdmins

\* return success_count > 0
FanoutResult(success_count) == success_count > 0

\* the loop leaving at the first send that raises
NextRecipientAbort(idx, sent) == IF sent THEN idx + 1 ELSE NAdmins + 1

\* the for loop over ADMIN_IDS goes on to the next recipient whatever the outcome
NextRecipient(idx, sent) == idx + 1

\* the for loop of kirim_notifikasi_admin from recipient idx on; sent[a] tells
\* whether send_message to a returns or raises
RECURSIVE FanoutLoop(_, _, _)
FanoutLoop(idx, sent, acc) ==
  IF idx \notin ADMIN_IDS THEN acc
  ELSE FanoutLoop(NextRecipient(idx, sent[idx]), sent,
                  [tried |-> acc.tried \cup {idx},
                   reached |-> IF sent[idx] THEN acc.reached \cup {idx} ELSE acc.reached,
                   success_count |-> IF sent[idx] THEN acc.success_count + 1
                                     ELSE acc.success_count])

\* one call of kirim_notifikasi_admin: the sends touch nothing but the call's locals
kirim_notifikasi_admin(sent) ==
  LET r == FanoutLoop(1, sent, [tried |-> {}, reached |-> {}, success_count |-> 0])
  IN [tried |-> r.tried, reached |-> r.reached, success |-> FanoutResult(r.success_count)]

\* whether kirim_notifikasi_admin_with_retry calls again after attempt (0-based)
RetryAgain(success, attempt) == ~success /\ attempt < retry_count - 1

\* kirim_notifikasi_admin_with_retry around one call: stop on success or after the
\* last attempt, else sleep and call again
kirim_notifikasi_admin_with_retry(st, h, sent) ==
  LET hd == st.hs[h]
      r == kirim_notifikasi_admin(sent)
      s1 == [st EXCEPT !.fan[hd.row] =
                         [@ EXCEPT !.attempts = @ + 1, !.tried = r.tried,
                                   !.reached = r.reached, !.success = r.success,
                                   !.got = [a \in ADMIN_IDS |->
                                              IF a \in r.reached THEN @[a] + 1 ELSE @[a]]]]
  IN IF RetryAgain(r.success, hd.attempt)
     THEN StartAttempt([s1 EXCEPT !.hs[h].attempt = @ + 1], h)
     ELSE Goto(s1, h, "fin_clear")

\* ------------------------------------------------------------- resumptions
\* an awaited reply_text returned
AfterReply(st, h, env) ==
  LET pc == st.hs[h].pc
  IN CASE pc = "pre_fin" -> Goto(st, h, "fin_read")
       [] pc = "flow_err_reply" -> Goto(Send(st, h, Reply("process_error")), h, "flow_clear")
       [] pc = "cek_reply" -> Goto(Send(st, h, st.hs[h].res), h, "cek_clear")
       [] pc = "cek_err_reply" -> Goto(Send(st, h, Reply("lookup_error")), h, "cek_clear")
       [] pc = "fin_nodata_reply" -> ClearAndEnd(Send(st, h, Reply("no_data")), h)
       [] pc = "fin_fail_reply" -> Goto(Send(st, h, Reply("disruption")), h, "fin_fail_clear")
       [] pc = "fin_ok_reply" ->
            StartAttempt(Send(st, h, [kind |-> "success", tid |-> st.hs[h].tid, row |-> <<>>]), h)

\* an awaited reply_text raised
AfterReplyError(st, h, env) ==
  LET pc == st.hs[h].pc
  IN CASE pc = "cek_reply" -> Goto(st, h, "cek_err_reply")
       [] pc = "fin_nodata_reply" -> Raise(Release(st, h), h, env)
       [] OTHER -> Raise(st, h, env)

\* a waiter woken by release takes the lock and runs its block
AfterWake(st, h, id, env) ==
  Body(Acquired([st EXCEPT !.lk[id].waiters = Tail(@)], h, id), h, env)

\* the coroutine the dispatcher creates for an update
NewHandler(u, kind, msg) ==
  [Idle EXCEPT !.user = u, !.kind = kind, !.msg = Strip(msg),
               !.pc = CASE kind = "text" -> "msg_read"
                        [] kind = "skip" -> "skip_set"
                        [] kind = "photo" -> "photo_read"
                        [] OTHER -> kind]

\* handle_bantuan builds the help text and replies; it calls neither the lock nor
\* the session store
handle_bantuan(st, h, env) ==
  LET u == st.hs[h].user
      s1 == [st EXCEPT !.ev = [kind |-> "bantuan", user |-> u, intake |-> MidIntake(st.us[u])]]
  IN FinalReply(s1, h, Reply("help"), env)

\* handle_bantuan and the photo label of handle_bukti_selection only reply
Begin(st, h, env) ==
  CASE st.hs[h].kind = "bantuan" -> handle_bantuan(st, h, env)
    [] st.hs[h].kind = "kirim_foto" -> FinalReply(st, h, Reply("ask_photo"), env)
    [] OTHER -> st

\* ------------------------------------------------------------------ actions
Apply(st) ==
  /\ ~st.capped
  /\ user_states' = st.us
  /\ user_locks' = st.ul
  /\ locks' = st.lk
  /\ handlers' = st.hs
  /\ worksheet' = st.ws
  /\ outbox' = st.out
  /\ fanout' = st.fan
  /\ overlap' = st.ov
  /\ finalized' = st.fin
  /\ event' = st.ev
  /\ today' = st.day

\* an update of user u reaches its handler, the sheet calls of the run having one
\* of the outcomes envs
DispatchWith(u, kind, msg, envs) ==
  /\ budget[u] > 0
  /\ \E h \in HIDs :
       /\ handlers[h] = Idle
       /\ \A g \in HIDs : handlers[g] = Idle => h <= g
       /\ \E env \in envs :
            LET st == Run(Begin([Cur EXCEPT !.hs[h] = NewHandler(u, kind, msg)], h, env), h, env)
            IN /\ Cardinality({g \in HIDs : st.hs[g] # Idle}) <= MaxHandlers
               /\ Apply(st)
  /\ budget' = [budget EXCEPT ![u] = @ - 1]

Dispatch(u, kind, msg) == DispatchWith(u, kind, msg, IF kind = "text" THEN ReadOnly ELSE NoSheet)

\* the texts the model lets a user type: the answer to the prompt the session is
\* at, and any of Texts elsewhere
TextsFor(u) ==
  LET s == user_states[u]
  IN IF s.mode = "pengaduan" /\ s.step = "nama" THEN {A_nama}
     ELSE IF s.mode = "pengaduan" /\ s.step = "username_website" THEN {A_username}
     ELSE IF s.mode = "pengaduan" /\ s.step = "keluhan" THEN {A_keluhan}
     ELSE Texts

\* a command, a reserved label or a photo arrives
DeliverCommand(u, c) == Dispatch(u, c, <<>>)

\* a plain text arrives
DeliverText(u, t) == Dispatch(u, "text", t)

ReplyDeliveredWith(h, envs) ==
  /\ handlers[h].pc \in ReplyAwaits
  /\ \E env \in envs : Apply(Run(AfterReply(Cur, h, env), h, env))
  /\ UNCHANGED budget

ReplyDelivered(h) == ReplyDeliveredWith(h, IF handlers[h].pc = "pre_fin" THEN Envs ELSE NoSheet)

ReplyFailed(h) ==
  /\ handlers[h].pc \in ReplyAwaits
  /\ \E env \in NoSheet : Apply(Run(AfterReplyError(Cur, h, env), h, env))
  /\ UNCHANGED budget

\* context.bot.get_file returned
FetchDone(h) ==
  /\ handlers[h].pc = "photo_fetch"
  /\ \E env \in NoSheet : Apply(Run(Goto(Cur, h, "photo_set"), h, env))
  /\ UNCHANGED budget

\* context.bot.get_file raised: the except clause of handle_photo replies
FetchFailed(h) ==
  /\ handlers[h].pc = "photo_fetch"
  /\ \E env \in NoSheet : Apply(FinalReply(Cur, h, Reply("photo_error"), env))
  /\ UNCHANGED budget

\* the sends of one call of kirim_notifikasi_admin have returned or raised
FanoutWith(h, outcomes) ==
  /\ handlers[h].pc = "notify_send"
  /\ \E sent \in outcomes, env \in NoSheet :
       Apply(Run(kirim_notifikasi_admin_with_retry(Cur, h, sent), h, env))
  /\ UNCHANGED budget

Fanout(h) == FanoutWith(h, [ADMIN_IDS -> BOOLEAN])

LockGrantedWith(h, envs) ==
  /\ \E id \in LockIds :
       /\ locks[id].holder = 0
       /\ locks[id].waiters # <<>>
       /\ Head(locks[id].waiters) = h
       /\ \E env \in envs : Apply(Run(AfterWake(Cur, h, id, env), h, env))
  /\ UNCHANGED budget

LockGranted(h) == LockGrantedWith(h, Envs)

\* ------------------------------------------------------------ specification
\* a row a previous run of the bot appended for user 1
OldRow ==
  [Row(("website_name" :> N_JokerBola) @@ ("nama" :> T_zzz) @@ ("username_website" :> T_zzz)
       @@ ("keluhan" :> T_zzz) @@ ("username_tg" :> UsernameTg(1)) @@ ("user_id" :> 1),
       FormatTicket(<<"J","B">>, 1, 1), 1) EXCEPT !.status = "Selesai"]

InitSheets == {<<OldRow>>}

\* either user 1 alone sends up to MaxMsgs updates, or every user up to MaxBoth
Budgets == {[u \in Users |-> IF u = 1 THEN MaxMsgs ELSE 0], [u \in Users |-> MaxBoth]}

Init ==
  /\ user_states = [u \in Users |-> NoSession]
  /\ user_locks = [u \in Users |-> 0]
  /\ locks = [id \in LockIds |-> FreeLock]
  /\ handlers = [h \in HIDs |-> Idle]
  /\ worksheet \in InitSheets
  /\ today = 1
  /\ outbox = [u \in Users |-> NoReply]
  /\ fanout = [i \in 1..Len(worksheet) |-> NoFan]
  /\ overlap = {}
  /\ finalized = [u \in Users |-> 0]
  /\ event = NoEvent
  /\ budget \in Budgets

Next ==
  \/ \E u \in Users, c \in Commands : DeliverCommand(u, c)
  \/ \E u \in Users : \E t \in TextsFor(u) : DeliverText(u, t)
  \/ \E h \in HIDs : ReplyDelivered(h)
  \/ \E h \in HIDs : ReplyFailed(h)
  \/ \E h \in HIDs : FetchDone(h)
  \/ \E h \in HIDs : FetchFailed(h)
  \/ \E h \in HIDs : Fanout(h)
  \/ \E h \in HIDs : LockGranted(h)

Spec == Init /\ [][Next]_vars

\* --------------------------------------- the sheet and the channel working
\* get_all_records and append_row return
SheetWorks == {[read |-> TRUE, append |-> TRUE]}

\* every send_message of a fan-out call returns
AllSent == {[a \in ADMIN_IDS |-> TRUE]}

CommandWorking(u, c) == DispatchWith(u, c, <<>>, SheetWorks)

TextWorking(u, t) == DispatchWith(u, "text", t, SheetWorks)

ReplyWorking(h) == ReplyDeliveredWith(h, SheetWorks)

FanoutWorking(h) == FanoutWith(h, AllSent)

LockGrantedWorking(h) == LockGrantedWith(h, SheetWorks)

\* the steps of Next in which no call of the sheet or of the channel raises
NextWorking ==
  \/ \E u \in Users, c \in Commands : CommandWorking(u, c)
  \/ \E u \in Users : \E t \in TextsFor(u) : TextWorking(u, t)
  \/ \E h \in HIDs : ReplyWorking(h)
  \/ \E h \in HIDs : FetchDone(h)
  \/ \E h \in HIDs : FanoutWorking(h)
  \/ \E h \in HIDs : LockGrantedWorking(h)

SpecWorking == Init /\ [][NextWorking]_vars

\* ------------------------------------------------- the issuer on its own
MaxIssueRows == 3

\* ticket numbers a sheet may hold: today's JokerBola 001 and 003, today's
\* NagaBola 001, and a JokerBola number of another day
IssueTids ==
  {FormatTicket(<<"J","B">>, 1, 1), FormatTicket(<<"J","B">>, 1, 3),
   FormatTicket(<<"N","B">>, 1, 1), FormatTicket(<<"J","B">>, 2, 2)}

IssueSheets ==
  UNION {[1..n -> {[OldRow EXCEPT !.tid = t] : t \in IssueTids}] : n \in 0..MaxIssueRows}

IssueCodes == {<<"J","B">>, <<"N","B">>}

IssueInit ==
  /\ user_states = [u \in Users |-> NoSession]
  /\ user_locks = [u \in Users |-> 0]
  /\ locks = [id \in LockIds |-> FreeLock]
  /\ handlers = [h \in HIDs |-> Idle]
  /\ worksheet \in IssueSheets
  /\ today = 1
  /\ outbox = [u \in Users |-> NoReply]
  /\ fanout = [i \in 1..Len(worksheet) |-> NoFan]
  /\ overlap = {}
  /\ finalized = [u \in Users |-> 0]
  /\ event = NoEvent
  /\ budget = [u \in Users |-> 0]

\* one call of generate_ticket_number, its result kept in the next free slot: the
\* calls are consecutive, slot 1 holding the first
IssueTicket(website_code, read_ok) ==
  /\ \E h \in HIDs :
       /\ handlers[h] = Idle
       /\ \A g \in HIDs : handlers[g] = Idle => h <= g
       /\ handlers' = [handlers EXCEPT ![h] =
                         [Idle EXCEPT !.kind = "issue", !.pc = "issued", !.msg = website_code,
                                      !.res = Reply(IF read_ok THEN "counted" ELSE "fallback"),
                                      !.tid = generate_ticket_number(website_code, worksheet,
                                                                     today, read_ok)]]
  /\ UNCHANGED <<user_states, user_locks, locks, worksheet, today, outbox, fanout,
                 overlap, finalized, event, budget>>

IssueNext == \E website_code \in IssueCodes, read_ok \in BOOLEAN : IssueTicket(website_code, read_ok)

SpecIssue == IssueInit /\ [][IssueNext]_vars

\* -------------------------------------------- the category matcher alone
MaxPad == 1

UpperChar(c) ==
  IF \E i \in 1..26 : LowerAlphabet[i] = c
  THEN UpperAlphabet[CHOOSE i \in 1..26 : LowerAlphabet[i] = c]
  ELSE c

\* s written in every letter case
CaseVariants(s) ==
  {[i \in 1..Len(s) |-> IF m[i] THEN UpperChar(s[i]) ELSE LowerChar(s[i])] :
     m \in [1..Len(s) -> BOOLEAN]}

\* runs of up to MaxPad blanks and tabs
Pads == UNION {[1..n -> {" ", "\t"}] : n \in 0..MaxPad}

\* the key or the display name of entry i of WEBSITES, in any letter case, with
\* whitespace before and after
MatchInputs(i) ==
  {lead \o v \o trail :
     lead \in Pads, trail \in Pads,
     v \in CaseVariants(WEBSITES[i].key) \cup CaseVariants(WEBSITES[i].name)}

\* what the category step stores for a match
SiteFields(w) == ("website_name" :> w.name) @@ ("website_code" :> w.code)

\* a text typed at the category step; row remembers the entry it was written from
MatchInit ==
  /\ user_states = [u \in Users |-> NoSession]
  /\ user_locks = [u \in Users |-> 0]
  /\ locks = [id \in LockIds |-> FreeLock]
  /\ \E i \in 1..Len(WEBSITES) : \E t \in MatchInputs(i) :
       handlers = [h \in HIDs |->
                     IF h = 1
                     THEN [Idle EXCEPT !.kind = "match", !.pc = "typed", !.msg = t, !.row = i]
                     ELSE Idle]
  /\ worksheet = <<>>
  /\ today = 1
  /\ outbox = [u \in Users |-> NoReply]
  /\ fanout = <<>>
  /\ overlap = {}
  /\ finalized = [u \in Users |-> 0]
  /\ event = NoEvent
  /\ budget = [u \in Users |-> 0]

\* handle_message strips the text, the category step validates it and keeps the
\* name and code of the entry found
ValidateInput ==
  /\ handlers[1].pc = "typed"
  /\ LET user_message == Strip(handlers[1].msg)
         w == validate_website_input(user_message)
     IN handlers' = [handlers EXCEPT ![1].pc = "validated",
                                     ![1].data = IF w # NoMatch THEN SiteFields(w) ELSE NoData]
  /\ UNCHANGED <<user_states, user_locks, locks, worksheet, today, outbox, fanout,
                 overlap, finalized, event, budget>>

MatchNext == ValidateInput

MaxBlank == 4

\* the empty text and the texts of up to MaxBlank whitespace characters
BlankInputs == UNION {[1..n -> Spaces] : n \in 0..MaxBlank}

\* a blank text typed at the category step; it was written from no entry
BlankInit ==
  /\ user_states = [u \in Users |-> NoSession]
  /\ user_locks = [u \in Users |-> 0]
  /\ locks = [id \in LockIds |-> FreeLock]
  /\ \E t \in BlankInputs :
       handlers = [h \in HIDs |->
                     IF h = 1
                     THEN [Idle EXCEPT !.kind = "match", !.pc = "typed", !.msg = t]
                     ELSE Idle]
  /\ worksheet = <<>>
  /\ today = 1
  /\ outbox = [u \in Users |-> NoReply]
  /\ fanout = <<>>
  /\ overlap = {}
  /\ finalized = [u \in Users |-> 0]
  /\ event = NoEvent
  /\ budget = [u \in Users |-> 0]

SpecBlank == BlankInit /\ [][MatchNext]_vars

SpecMatch == MatchInit /\ [][MatchNext]_vars

\* ----------------------------------------------- the session store alone
\* sessions the map may hold for a user: none, the default one, the menu, an
\* intake with a category stored
StoreSessions ==
  {NoSession, DefaultState, MenuState,
   [mode |-> "pengaduan", step |-> "nama", data |-> SiteFields(WEBSITES[1])]}

\* lock maps: every user has no entry or an entry of its own
StoreLocks ==
  {ul \in [Users -> {0} \cup LockIds] :
     /\ \A u \in Users : ul[u] \in {0, u}}

StoreInit ==
  /\ user_states \in [Users -> StoreSessions]
  /\ user_locks \in StoreLocks
  /\ locks = [id \in LockIds |-> FreeLock]
  /\ handlers = [h \in HIDs |-> Idle]
  /\ worksheet = <<>>
  /\ today = 1
  /\ outbox = [u \in Users |-> NoReply]
  /\ fanout = <<>>
  /\ overlap = {}
  /\ finalized = [u \in Users |-> 0]
  /\ event = NoEvent
  /\ budget = [u \in Users |-> 0]

\* get_user_lock(user_id) and get_user_state(user_id), as a handler entering its
\* locked block calls them
GetOrCreate(u) ==
  /\ LET st == get_user_state(get_user_lock(Cur, u), u)
     IN /\ user_states' = st.us
        /\ user_locks' = st.ul
  /\ event' = [kind |-> "GetOrCreate", user |-> u, obtained |-> TRUE]
  /\ UNCHANGED <<locks, handlers, worksheet, today, outbox, fanout, overlap,
                 finalized, budget>>

\* clear_user_state(user_id); obtained tells whether the call before it was
\* GetOrCreate for the same user
Clear(u) ==
  /\ LET st == clear_user_state(Cur, u)
     IN /\ user_states' = st.us
        /\ user_locks' = st.ul
        /\ handlers' = st.hs
        /\ finalized' = st.fin
  /\ event' = [kind |-> "Clear", user |-> u,
               obtained |-> (event.kind = "GetOrCreate" /\ event.user = u)]
  /\ UNCHANGED <<locks, worksheet, today, outbox, fanout, overlap, budget>>

StoreNext ==
  \/ \E u \in Users : GetOrCreate(u)
  \/ \E u \in Users : Clear(u)

SpecStore == StoreInit /\ [][StoreNext]_vars

\* ------------------------------------------------- the status lookup alone
MaxLookupRows == 3

\* two ticket numbers a lookup may ask for
LookupTids == {FormatTicket(<<"J","B">>, 1, 1), FormatTicket(<<"J","B">>, 1, 2)}

\* sheets of up to MaxLookupRows rows, each with one of the numbers and filed by
\* one of the users; a number may be in several rows, as after two fallback
\* issuances
LookupSheets ==
  UNION {[1..n -> {[OldRow EXCEPT !.tid = t, !.user_id = u] : t \in LookupTids, u \in Users}] :
           n \in 0..MaxLookupRows}

LookupInit ==
  /\ user_states = [u \in Users |-> NoSession]
  /\ user_locks = [u \in Users |-> 0]
  /\ locks = [id \in LockIds |-> FreeLock]
  /\ handlers = [h \in HIDs |-> Idle]
  /\ worksheet \in LookupSheets
  /\ today = 1
  /\ outbox = [u \in Users |-> NoReply]
  /\ fanout = [i \in 1..Len(worksheet) |-> NoFan]
  /\ overlap = {}
  /\ finalized = [u \in Users |-> 0]
  /\ event = NoEvent
  /\ budget = [u \in Users |-> 0]

\* proses_cek_status for the number t typed by user u, the sheet being readable,
\* up to the reply it is about to send
LookupTicket(u, t) ==
  /\ LET asked == [Idle EXCEPT !.user = u, !.kind = "text", !.msg = t]
         st == proses_cek_status([Cur EXCEPT !.hs[1] = asked], 1, [read |-> TRUE, append |-> TRUE])
     IN handlers' = st.hs
  /\ UNCHANGED <<user_states, user_locks, locks, worksheet, today, outbox, fanout,
                 overlap, finalized, event, budget>>

LookupNext == \E u \in Users, t \in LookupTids : LookupTicket(u, t)

SpecLookup == LookupInit /\ [][LookupNext]_vars

\* -------------------------------------------------------------- properties
InFlight(i) == \E h \in HIDs : handlers[h].row = i

DigitValue(c) == (CHOOSE i \in 1..10 : Digit[i] = c) - 1

RECURSIVE ParseNat(_)
ParseNat(s) ==
  IF s = <<>> THEN 0 ELSE ParseNat(SubSeq(s, 1, Len(s) - 1)) * 10 + DigitValue(s[Len(s)])

\* the numeric suffixes of the day's tickets of a category in the sheet
Suffixes(website_code, rows, day) ==
  {ParseNat(SubSeq(rows[i].tid, Len(TicketPrefix(website_code, day)) + 2, Len(rows[i].tid))) :
     i \in {j \in 1..Len(rows) : StartsWith(rows[j].tid, TicketPrefix(website_code, day))}}

MaxSuffix(website_code, rows, day) ==
  LET s == Suffixes(website_code, rows, day)
  IN IF s = {} THEN 0 ELSE CHOOSE m \in s : \A k \in s : k <= m

\* C1: the ticket number the issuer returned for a row that was then appended is
\* the number of no row that was already in the sheet.
C1_IssuedIdNotInStore ==
  \A h \in HIDs :
    handlers[h].pc = "fin_ok_reply" =>
      \A i \in 1..(handlers[h].row - 1) : worksheet[i].tid # handlers[h].tid

\* C2: a session never produces two rows: between two clears of a user's session
\* at most one row is appended from it, by the skip phrase or by a photo.
C2_FinalizedAtMostOnce == \A u \in Users : finalized[u] <= 1

\* C3: the status reply of a lookup carries a row only when the row's User_ID is the
\* asking user's and its number is the one asked for; when every row with the asked
\* number belongs to someone else the reply is NotFound, as for an unknown number.
C3_StatusOnlyToOwner ==
  /\ \A h \in HIDs :
       handlers[h].pc = "cek_reply" =>
         LET r == handlers[h].res
             u == handlers[h].user
         IN /\ r.kind = "status" =>
                 /\ r.row[1].user_id = u
                 /\ r.row[1].tid = handlers[h].msg
                 /\ \E i \in 1..Len(worksheet) : worksheet[i] = r.row[1]
            /\ r.kind # "status" => r = NotFound
            /\ (\A i \in 1..Len(worksheet) :
                  worksheet[i].tid = handlers[h].msg => worksheet[i].user_id # u)
                 => r = NotFound
  /\ \A u \in Users : outbox[u].kind = "status" => outbox[u].row[1].user_id = u

\* C3 witness: user 2 asked for the number of a row that exists and belongs to
\* user 1, and the reply chosen is NotFound.
C3_Witness ==
  \E h \in HIDs :
    /\ handlers[h].pc = "cek_reply"
    /\ handlers[h].user = 2
    /\ handlers[h].res = NotFound
    /\ \E i \in 1..Len(worksheet) :
         worksheet[i].tid = handlers[h].msg /\ worksheet[i].user_id = 1

\* C4: the number issued after a successful read is the largest numeric suffix among
\* the day's tickets of the category plus one (001 when there is none), so a gap is
\* not reused: with 001 and 003 in the sheet the next number is 004.
C4_IssueIsMaxPlusOne ==
  (handlers[1].pc = "issued" /\ handlers[1].res.kind = "counted") =>
    handlers[1].tid =
      FormatTicket(handlers[1].msg, today, MaxSuffix(handlers[1].msg, worksheet, today) + 1)

\* C5: once no handler works on a row appended in this run, the notifier has made
\* between 1 and retry_count calls of the fan-out for it, every call but the last
\* failed, and a call that succeeded was the last.
C5_EveryTicketNotified ==
  \A i \in 1..Len(worksheet) :
    (fanout[i].new /\ ~InFlight(i)) =>
      /\ fanout[i].attempts \in 1..retry_count
      /\ fanout[i].success \/ fanout[i].attempts = retry_count

\* C6: a call of the fan-out tries every recipient whatever happened to the others,
\* and it reports success exactly when at least one send succeeded.
C6_FanoutIndependent ==
  \A i \in 1..Len(worksheet) :
    fanout[i].attempts > 0 =>
      /\ fanout[i].tried = ADMIN_IDS
      /\ fanout[i].success <=> (fanout[i].reached # {})

\* C6 witness: a call in which the first and the last recipient failed and the
\* second was reached, reported as a success.
C6_Witness ==
  \E i \in 1..Len(worksheet) :
    /\ fanout[i].attempts > 0
    /\ fanout[i].reached = {2}
    /\ fanout[i].tried = ADMIN_IDS
    /\ fanout[i].success

C8_LookupClearsSession ==
  [][\A h \in HIDs :
       (/\ handlers[h].pc \in {"cek_reply", "cek_err_reply", "cek_clear"}
        /\ handlers'[h] = Idle)
       => user_states'[handlers[h].user] = NoSession]_vars

\* C9: right after start or handle_cancel ran, in whatever state the session was,
\* the session is at the main menu, with no step and nothing collected.
C9_CancelHonoured ==
  event.kind \in {"cancel", "start"} => user_states[event.user] = MenuState

\* C9 witness: handle_cancel ran on a session that was in the middle of an intake
\* with answers collected.
C9_Witness == event.kind = "cancel" /\ event.intake

\* C10: when a finalize whose append failed ends, no row was appended for it, the
\* last reply to the filer is the disruption reply, the session is absent, and the
\* notifier did nothing.
C10_AppendFailureHandled ==
  [][\A h \in HIDs :
       (/\ handlers[h].pc \in {"fin_fail_reply", "fin_fail_clear"}
        /\ handlers'[h] = Idle)
       => /\ handlers[h].row = 0
          /\ worksheet' = worksheet
          /\ fanout' = fanout
          /\ outbox'[handlers[h].user].kind = "disruption"
          /\ user_states'[handlers[h].user] = NoSession]_vars

\* a handler whose notifier has made retry_count calls for its row, none reaching
\* a recipient
Exhausted(hd) ==
  /\ hd.pc \in {"notify_send", "fin_clear"}
  /\ fanout'[hd.row].attempts = retry_count
  /\ ~fanout'[hd.row].success

\* C11: when the finalize whose retry_count fan-out calls all reached nobody ends,
\* the row it appended is in the sheet as appended, the last reply it sent to the
\* filer is the success confirmation with the ticket number, and the session is
\* absent.
C11_ExhaustionKeepsTicket ==
  [][\A h \in HIDs :
       (Exhausted(handlers[h]) /\ handlers'[h] = Idle) =>
         /\ Len(worksheet') = Len(worksheet)
         /\ worksheet'[handlers[h].row] = Row(handlers[h].data, handlers[h].tid, today)
         /\ handlers[h].res = [kind |-> "success", tid |-> handlers[h].tid, row |-> <<>>]
         /\ user_states'[handlers[h].user] = NoSession]_vars

\* C11 witness: a row of this run with retry_count failed calls and no handler
\* left on it, its filer's session absent and the success confirmation the last
\* reply the filer got.
C11_Witness ==
  \E i \in 1..Len(worksheet) :
    /\ fanout[i].new /\ ~InFlight(i)
    /\ fanout[i].attempts = retry_count /\ ~fanout[i].success /\ fanout[i].reached = {}
    /\ user_states[worksheet[i].user_id] = NoSession
    /\ outbox[worksheet[i].user_id] = [kind |-> "success", tid |-> worksheet[i].tid, row |-> <<>>]

\* user 1 has sent exactly six updates and row i, appended in this run, has the
\* no-evidence sentinel: the updates were the new-complaint command, a catalog name,
\* the three answers and the skip phrase
SkippedIntake(i) ==
  /\ fanout[i].new
  /\ budget[1] = MaxMsgs - 6
  /\ worksheet[i].bukti = NoPhoto

\* what the row and the notifier's record of such an intake are, the three answers
\* being stored as nama, username and keluhan
EndToEnd(nama, username, keluhan) ==
  \A i \in 1..Len(worksheet) :
    SkippedIntake(i) =>
      /\ Cardinality({j \in 1..Len(worksheet) : fanout[j].new}) = 1
      /\ worksheet[i].website = N_JokerBola
      /\ worksheet[i].nama = nama
      /\ worksheet[i].username_website = username
      /\ worksheet[i].keluhan = keluhan
      /\ worksheet[i].user_id = 1
      /\ worksheet[i].status = "Sedang diproses"
      /\ \E n \in 1..MaxRows : worksheet[i].tid = FormatTicket(<<"J","B">>, today, n)
      /\ fanout[i].attempts <= 1
      /\ ~InFlight(i) =>
           /\ fanout[i].attempts = 1
           /\ fanout[i].tried = ADMIN_IDS
           /\ fanout[i].reached = ADMIN_IDS
           /\ \A a \in ADMIN_IDS : fanout[i].got[a] = 1

WellFormed(tid, website_code, day) ==
  /\ StartsWith(tid, TicketPrefix(website_code, day) \o <<"-">>)
  /\ Len(tid) >= Len(TicketPrefix(website_code, day)) + 4
  /\ \A k \in (Len(TicketPrefix(website_code, day)) + 2)..Len(tid) :
       \E d \in 1..10 : Digit[d] = tid[k]

\* C13: a number issued when the read of the sheet failed is well formed for the
\* category and the day, and two consecutive issuances for one category that both
\* met a failed read give two different numbers.
C13_FallbackIdsDistinct ==
  \A g, h \in HIDs :
    (handlers[g].pc = "issued" /\ handlers[g].res.kind = "fallback") =>
      /\ WellFormed(handlers[g].tid, handlers[g].msg, today)
      /\ (/\ h = g + 1
          /\ handlers[h].pc = "issued" /\ handlers[h].res.kind = "fallback"
          /\ handlers[h].msg = handlers[g].msg)
         => handlers[h].tid # handlers[g].tid

\* C14: a session whose step is completed is not left behind: when no handler of
\* the user is in flight any more, so that nothing happens to the session until
\* the user sends something, the step is not completed.
C14_NoDeadEndAfterCompletion ==
  \A u \in Users :
    (\A h \in HIDs : handlers[h].user # u) => user_states[u].step # "completed"

\* the step is one of user a: an update of a was dispatched, or a coroutine
\* handling an update of a moved
ActsFor(a) ==
  \/ budget'[a] # budget[a]
  \/ \E h \in HIDs : /\ handlers'[h] # handlers[h]
                      /\ (handlers[h].user = a \/ handlers'[h].user = a)

\* C15: a step made for user a leaves the session (mode, step, fields) and the
\* lock entry of every other user b as they were, and the lock the entry names
\* too, whatever the handlers of b are doing at that moment.
C15_CrossUserIndependence ==
  [][\A a \in Users, b \in Users :
       (a # b /\ ActsFor(a)) =>
         /\ user_states'[b] = user_states[b]
         /\ user_locks'[b] = user_locks[b]
         /\ user_locks[b] # 0 => locks'[user_locks[b]] = locks[user_locks[b]]]_vars

\* user 1 has just cancelled while user 2 has a session with a lock entry and a
\* handler in flight
C15_Witness ==
  /\ event.kind = "cancel" /\ event.user = 1
  /\ user_states[2].mode = "pengaduan"
  /\ user_locks[2] # 0
  /\ \E h \in HIDs : handlers[h].user = 2
  /\ user_states[1] = MenuState

\* C16: the key or the display name of a catalog entry, typed in any letter case
\* and with whitespace around it, resolves to the display name and code of that
\* entry and of no other.
C16_MatchIgnoresCaseAndSpace ==
  handlers[1].pc = "validated" =>
    handlers[1].data = SiteFields(WEBSITES[handlers[1].row])

\* PasarLiga typed after a tab and not all in lower case was resolved to PL
C16_Witness ==
  /\ handlers[1].pc = "validated"
  /\ handlers[1].row = 5
  /\ handlers[1].msg[1] = "\t"
  /\ Lower(handlers[1].msg) # handlers[1].msg
  /\ handlers[1].data["website_code"] = <<"P","L">>

\* C17: whatever the maps held before, once the lock and the session of a user
\* have been obtained and clear_user_state is called next, the session map has no
\* entry (and so no field) for the user and the lock map has no entry for the user.
C17_GetOrCreateThenClear ==
  (event.kind = "Clear" /\ event.obtained) =>
    /\ user_states[event.user] = NoSession
    /\ user_locks[event.user] = 0

\* user 2 was obtained and cleared while user 1 keeps a session and a lock entry
C17_Witness ==
  /\ event.kind = "Clear" /\ event.obtained /\ event.user = 2
  /\ user_states[2] = NoSession /\ user_locks[2] = 0
  /\ user_states[1] # NoSession /\ user_locks[1] # 0

\* the step that follows a step of the intake
NextStep ==
  ("nama_website" :> "nama") @@ ("nama" :> "username_website")
  @@ ("username_website" :> "keluhan") @@ ("keluhan" :> "bukti")
  @@ ("bukti" :> "completed")

\* the session was deleted, or replaced by a new one with nothing collected
ResetOrCleared(t) ==
  \/ t = NoSession
  \/ t.data = NoData /\ t.step \in {"None", "nama_website", "input_tiket"}

\* C18: the step of a session changes only to the step that follows it in the
\* intake, or because the session is reset or cleared; so the step becomes
\* completed only from the evidence step of an intake.
C18_StepsAdvanceInOrder ==
  [][\A u \in Users :
       user_states'[u].step # user_states[u].step =>
         \/ ResetOrCleared(user_states'[u])
         \/ /\ user_states[u].mode = "pengaduan"
            /\ user_states'[u].mode = "pengaduan"
            /\ user_states[u].step \in DOMAIN NextStep
            /\ user_states'[u].step = NextStep[user_states[u].step]]_vars

\* the step is made by the handler of a plain text of user u (the text is
\* dispatched, or its handler is resumed), no other handler of u being in flight,
\* while the session of u is at the evidence step of an intake
PlainTextAtEvidence(u) ==
  /\ user_states[u].mode = "pengaduan"
  /\ user_states[u].step = "bukti"
  /\ \E h \in HIDs :
       /\ \/ /\ budget'[u] # budget[u]
             /\ handlers[h] = Idle
             /\ handlers'[h].kind = "text" /\ handlers'[h].user = u
          \/ /\ budget' = budget
             /\ handlers[h].kind = "text" /\ handlers[h].user = u
             /\ handlers'[h] # handlers[h]
       /\ \A g \in HIDs \ {h} : handlers[g].user # u

\* C19: at the evidence step of an intake a plain text only re-prompts: handling
\* it leaves the session at the evidence step with the collected fields as they
\* were, and appends no row.
C19_OtherInputAtEvidenceKeepsSession ==
  [][\A u \in Users :
       PlainTextAtEvidence(u) =>
         /\ user_states'[u] = user_states[u]
         /\ worksheet' = worksheet]_vars

\* C20: a text that matches no entry of the catalog, handled at the category
\* step, leaves the session as it was: intake, category step, no category stored;
\* and however many such texts came before, a matching text handled at the
\* category step with no other handler of the user in flight moves the session to
\* the name step with the entry's name and code stored.
C20_NoMatchKeepsCategoryStep ==
  [][\A u \in Users :
       (event'.kind = "category" /\ event'.user = u) =>
         IF event'.found = NoMatch
         THEN /\ user_states'[u] = user_states[u]
              /\ user_states[u].mode = "pengaduan"
              /\ user_states[u].step = "nama_website"
              /\ "website_name" \notin DOMAIN user_states[u].data
              /\ "website_code" \notin DOMAIN user_states[u].data
         ELSE (\A h \in HIDs : handlers[h].user # u) =>
                user_states'[u] = [user_states[u] EXCEPT !.step = "nama",
                                                         !.data = SiteFields(event'.found) @@ @]]_vars

\* the third update of user 1 was a text that matched nothing at the category
\* step, and the session is still there with nothing stored
C20_Witness ==
  /\ event.kind = "category" /\ event.user = 1 /\ event.found = NoMatch
  /\ budget[1] = MaxMsgs - 3
  /\ user_states[1] = [mode |-> "pengaduan", step |-> "nama_website", data |-> NoData]

\* C21: right after the help phrase was handled, the user's session is reset: it
\* is absent, or holds no step and no collected field and no mode but the menu's.
C21_HelpResetsSession ==
  event.kind = "bantuan" => user_states[event.user] \in {NoSession, DefaultState, MenuState}

\* handler h took a photo at the evidence step and, while it was suspended, the
\* session it had read was deleted: its local user_state is an orphan
PhotoOutlived(h) == handlers[h].kind = "photo" /\ handlers[h].ref = "stale"

C23_SessionReadUnderLock == event.kind = "read" => event.locked

\* C24: for a text that is empty or only whitespace the matcher finds no entry,
\* so the category step stores no name and no code.
C24_BlankInputRejected ==
  (handlers[1].pc = "validated" /\ Strip(handlers[1].msg) = <<>>) =>
    handlers[1].data = NoData

\* the steps of an intake at which a text or the evidence is expected
IntakeSteps == {"nama_website", "nama", "username_website", "keluhan", "bukti"}

\* the handling of a plain text of user u ends in this step, the text having found
\* the session in a state that is neither an intake step nor a lookup: either
\* handle_message took its last branch, or handle_pengaduan_flow had read a step
\* that is not a step of the intake
FallbackEnds(u) ==
  \/ event'.kind = "fallback" /\ event'.user = u
  \/ \E h \in HIDs :
       /\ handlers[h].kind = "text" /\ handlers[h].user = u
       /\ handlers[h].pc \in {"flow_err_reply", "flow_clear"}
       /\ handlers[h].step \notin IntakeSteps
       /\ handlers'[h] = Idle

\* C25: when the handling of a plain text ends that found the session in a state
\* that is neither an intake step nor a lookup, the session is cleared and no row
\* was appended.
C25_CorruptedStateFallback ==
  [][\A u \in Users :
       FallbackEnds(u) =>
         /\ user_states'[u] = NoSession
         /\ worksheet' = worksheet]_vars

\* the four answers of an intake and the id of the user who gave them
IntakeKeys == {"website_name", "nama", "username_website", "keluhan", "user_id"}

\* row r was built from the session of user u as it was before the step, all the
\* answers being there
BuiltFrom(r, u) ==
  LET d == user_states[u].data
  IN /\ IntakeKeys \subseteq DOMAIN d
     /\ r.website = d["website_name"]
     /\ r.nama = d["nama"]
     /\ r.username_website = d["username_website"]
     /\ r.keluhan = d["keluhan"]
     /\ d["user_id"] = u
     /\ r.user_id = u

\* C26: a step that appends a row appends one row, built by a handler of some
\* user u from the session of u in which the category, the name, the account and
\* the complaint had been collected, and carrying the id of u; so a skip phrase
\* or a photo handled before these are collected appends nothing.
C26_AppendedRecordComplete ==
  [][worksheet' # worksheet =>
       /\ Len(worksheet') = Len(worksheet) + 1
       /\ SubSeq(worksheet', 1, Len(worksheet)) = worksheet
       /\ \E h \in HIDs :
            /\ handlers'[h].row = Len(worksheet')
            /\ handlers[h].user = handlers'[h].user
            /\ BuiltFrom(worksheet'[Len(worksheet')], handlers[h].user)]_vars

\* a row was appended for user 1 with a photo as evidence
C26_Witness ==
  \E i \in DOMAIN worksheet :
    /\ fanout[i].new
    /\ worksheet[i].bukti = FilePath
    /\ worksheet[i].user_id = 1
    /\ worksheet[i].keluhan = Strip(A_keluhan)

\* C27: over all the calls the notifier makes for one appended row, no recipient
\* is sent the new-ticket message successfully more than once.
C27_NoDuplicateNotification ==
  \A i \in DOMAIN fanout : \A a \in ADMIN_IDS : fanout[i].got[a] <= 1

\* a row for which the notifier called again after a call that reached nobody,
\* and then reached some but not all recipients
C27_Witness ==
  \E i \in DOMAIN fanout :
    /\ fanout[i].attempts >= 2
    /\ fanout[i].reached # {}
    /\ fanout[i].reached # ADMIN_IDS
    /\ \A a \in fanout[i].reached : fanout[i].got[a] = 1

\* C28: when the sheet was read and holds a row with the asked number whose
\* User_ID is the asking user's, the reply chosen shows such a row and is not
\* NotFound, whatever other rows carry the same number.
C28_OwnerFindsTicket ==
  \A h \in HIDs :
    (/\ handlers[h].pc = "cek_reply"
     /\ \E i \in 1..Len(worksheet) :
          worksheet[i].tid = handlers[h].msg /\ worksheet[i].user_id = handlers[h].user)
    => /\ handlers[h].res.kind = "status"
       /\ handlers[h].res.row[1].tid = handlers[h].msg
       /\ handlers[h].res.row[1].user_id = handlers[h].user
====
